---------------------------- MODULE Spec2Model ----------------------------
(***************************************************************************)
(* A model of the 3D truss suite: the Streamlit session of app.py (input   *)
(* tables, "Calculate Results", "Run AI Size Optimization") and the        *)
(* TrussOptimizer of ai_optimizer.py (objective_function, optimize).       *)
(*                                                                         *)
(* core_solver.py (Node, Member, TrussSystem) is not part of the sources   *)
(* at hand; its operators below follow sections 3 and 4 of the             *)
(* specification and are marked so in the model map.                       *)
(*                                                                         *)
(* Numbers.  TLC computes on 32-bit integers, the program on 64-bit        *)
(* floats.  All coordinates, areas, loads and limits of the model are      *)
(* integers in units chosen so that every quotient the program forms is    *)
(* exact on the inputs enumerated here (members are axis-aligned and of    *)
(* unit length, loads are multiples of LoadUnit).  The three score levels  *)
(* keep the ratios of the source, 1e6 : 1e9 : 1e12.                        *)
(***************************************************************************)
EXTENDS Integers, Sequences, FiniteSets, TLC

(***************************************************************************)
(* Bounds of the model.                                                    *)
(***************************************************************************)
MaxNodeRows == 2
MaxMemberRows == 1
MaxLoadRows == 2
PopSize == 2
MaxGen == 1
MaxPolish == 1

(***************************************************************************)
(* Program constants, scaled to the model's units.                         *)
(***************************************************************************)
Density == 1
PenaltyUnit == 10000
SolveFailPenalty == 10000000
FeasibleThreshold == 10
DefaultArea == 2
DefaultE == 1
DefaultLoadSteps == 10
LoadUnit == 12

(***************************************************************************)
(* Arithmetic helpers.                                                     *)
(***************************************************************************)
Abs(x) == IF x < 0 THEN -x ELSE x

Max2(a, b) == IF a >= b THEN a ELSE b

RECURSIVE SumSeq(_)
SumSeq(s) == IF s = << >> THEN 0 ELSE Head(s) + SumSeq(Tail(s))

RECURSIVE MaxSeq(_)
MaxSeq(s) == IF Len(s) = 1 THEN s[1] ELSE Max2(Head(s), MaxSeq(Tail(s)))

\* floor of the square root; exact on the perfect squares the model's
\* axis-aligned geometry produces
Sqrt(n) == CHOOSE r \in 0..n : r * r <= n /\ (r + 1) * (r + 1) > n

Dot(a, b) == SumSeq([i \in 1..Len(a) |-> a[i] * b[i]])

\* the subsequence of s at the (1-based) positions listed in idx
Pick(s, idx) == [i \in 1..Len(idx) |-> s[idx[i]]]

\* drop position j of a sequence
DropAt(s, j) == [i \in 1..(Len(s) - 1) |-> IF i < j THEN s[i] ELSE s[i + 1]]

\* determinant by expansion along the first row
RECURSIVE Det(_)
Det(M) ==
    IF Len(M) = 0 THEN 1
    ELSE IF Len(M) = 1 THEN M[1][1]
    ELSE SumSeq([j \in 1..Len(M) |->
            IF M[1][j] = 0 THEN 0
            ELSE (IF j % 2 = 1 THEN 1 ELSE -1) * M[1][j]
                 * Det([r \in 1..(Len(M) - 1) |-> DropAt(M[r + 1], j)])])

\* M with column c replaced by the vector v
ReplaceCol(M, c, v) ==
    [r \in 1..Len(M) |-> [k \in 1..Len(M) |-> IF k = c THEN v[r] ELSE M[r][k]]]

(***************************************************************************)
(* core_solver: Node, Member, TrussSystem (from the specification).        *)
(***************************************************************************)
\* U_global before any solve (Python None); a system with nodes has a
\* displacement vector of 3n >= 3 entries, so the empty tuple is free
NoneU == << >>

\* Node(id, x, y, z, rx, ry, rz): DOF indices 3*(id-1) .. 3*(id-1)+2
Node(id, x, y, z, rx, ry, rz) ==
    [id |-> id, x |-> x, y |-> y, z |-> z,
     rx |-> rx, ry |-> ry, rz |-> rz,
     dofs |-> <<3 * (id - 1), 3 * (id - 1) + 1, 3 * (id - 1) + 2>>,
     user_id |-> id]

MemberLength(ni, nj) ==
    Sqrt((nj.x - ni.x) * (nj.x - ni.x) + (nj.y - ni.y) * (nj.y - ni.y)
         + (nj.z - ni.z) * (nj.z - ni.z))

\* T = [-l, -m, -n, l, m, n] with (l, m, n) = (P_j - P_i) / L
TVector(ni, nj, L) ==
    LET l == (nj.x - ni.x) \div L
        m == (nj.y - ni.y) \div L
        n == (nj.z - ni.z) \div L
    IN  <<-l, -m, -n, l, m, n>>

\* k = (E*A/L) * outer(T, T)
Stiffness(E, A, L, T) ==
    [i \in 1..6 |-> [j \in 1..6 |-> ((E * A) \div L) * T[i] * T[j]]]

\* a member whose end nodes coincide has no direction: the constructor fails
MemberDegenerate(ni, nj) == MemberLength(ni, nj) = 0

\* Member(id, node_i, node_j, E, A); the end nodes are held by their ids
Member(id, ni, nj, E, A) ==
    LET L == MemberLength(ni, nj)
        T == TVector(ni, nj, L)
    IN  [id |-> id, node_i |-> ni.id, node_j |-> nj.id, E |-> E, A |-> A,
         L |-> L, T_vector |-> T, k_global_matrix |-> Stiffness(E, A, L, T),
         u_local |-> NoneU, internal_force |-> 0]

\* TrussSystem(): no nodes, no members, no loads, nothing solved
TrussSystem ==
    [nodes |-> << >>, members |-> << >>, loads |-> << >>,
     free_dofs |-> << >>, U_global |-> NoneU]

\* ts.loads is a dict from DOF index to load, held as a sequence of
\* <<dof, load>> pairs with one pair per key; get(dof, 0) reads it
LoadKeys(loads) == {loads[i][1] : i \in 1..Len(loads)}

LoadGet(loads, dof) ==
    IF dof \in LoadKeys(loads)
    THEN (CHOOSE p \in {loads[i] : i \in 1..Len(loads)} : p[1] = dof)[2]
    ELSE 0

LoadPut(loads, dof, v) ==
    IF dof \in LoadKeys(loads)
    THEN [i \in 1..Len(loads) |-> IF loads[i][1] = dof THEN <<dof, v>> ELSE loads[i]]
    ELSE Append(loads, <<dof, v>>)

\* the six global DOF indices of a member: node_i's three, then node_j's
MemberDofs(ts, m) == ts.nodes[m.node_i].dofs \o ts.nodes[m.node_j].dofs

NumDofs(ts) == 3 * Len(ts.nodes)

\* entry (r, c), by DOF index, of the global stiffness matrix that the
\* scatter-add assembly of the element matrices produces
KEntry(ts, r, c) ==
    SumSeq([mi \in 1..Len(ts.members) |->
        LET m == ts.members[mi]
            d == MemberDofs(ts, m)
        IN  SumSeq([a \in 1..6 |-> SumSeq([b \in 1..6 |->
                IF d[a] = r /\ d[b] = c
                THEN m.k_global_matrix[a][b] ELSE 0])])])

Restrained(ts, dof) ==
    LET n == ts.nodes[(dof \div 3) + 1]
        axis == dof % 3
    IN  (IF axis = 0 THEN n.rx ELSE IF axis = 1 THEN n.ry ELSE n.rz) # 0

RECURSIVE FreeDofsFrom(_, _)
FreeDofsFrom(ts, dof) ==
    IF dof >= NumDofs(ts) THEN << >>
    ELSE (IF Restrained(ts, dof) THEN << >> ELSE <<dof>>) \o FreeDofsFrom(ts, dof + 1)

FreeDofs(ts) == FreeDofsFrom(ts, 0)

\* position of dof in the list of free DOFs (0 if restrained)
FreePos(free, dof) ==
    IF \E i \in 1..Len(free) : free[i] = dof
    THEN CHOOSE i \in 1..Len(free) : free[i] = dof
    ELSE 0

\* TrussSystem.solve(): assemble, partition, solve K_ff U_f = F_f, scatter,
\* recover member forces.  A singular K_ff raises and publishes nothing.
solve(ts) ==
    LET free == FreeDofs(ts)
        nf == Len(free)
        Kff == [i \in 1..nf |-> [j \in 1..nf |-> KEntry(ts, free[i], free[j])]]
        Ff == [i \in 1..nf |-> LoadGet(ts.loads, free[i])]
        det == Det(Kff)
    IN  IF det = 0
        THEN [raised |-> TRUE, ts |-> ts]
        ELSE LET Uf == [i \in 1..nf |-> Det(ReplaceCol(Kff, i, Ff)) \div det]
                 U == [d \in 1..NumDofs(ts) |->
                          IF FreePos(free, d - 1) = 0 THEN 0
                          ELSE Uf[FreePos(free, d - 1)]]
                 solved(m) ==
                    LET ul == [a \in 1..6 |-> U[MemberDofs(ts, m)[a] + 1]]
                    IN  [m EXCEPT !.u_local = ul,
                                  !.internal_force =
                                      ((m.E * m.A) \div m.L) * Dot(m.T_vector, ul)]
             IN  [raised |-> FALSE,
                  ts |-> [ts EXCEPT !.free_dofs = free,
                                    !.U_global = U,
                                    !.members = [i \in 1..Len(ts.members) |->
                                                    solved(ts.members[i])]]]

(***************************************************************************)
(* ai_optimizer: TrussOptimizer.objective_function.                        *)
(***************************************************************************)
\* float infinity (a division of a nonzero force by a zero area, and the
\* energy of a population member that was not evaluated yet)
Infinity == 2000000000

SatAdd(a, b) == IF a >= Infinity \/ b >= Infinity THEN Infinity ELSE a + b

\* faulty variant: the areas are assigned, the stiffness matrices are left
\* as they were
ApplyAreasKeepK(ts, areas) ==
    [ts EXCEPT !.members = [i \in 1..Len(ts.members) |->
        [ts.members[i] EXCEPT !.A = areas[i]]]]

\* faulty variant: the stiffness is refreshed before the area is assigned,
\* so it is the stiffness of the area the member had
ApplyAreasLaggingK(ts, areas) ==
    [ts EXCEPT !.members = [i \in 1..Len(ts.members) |->
        [ts.members[i] EXCEPT
            !.A = areas[i],
            !.k_global_matrix = Stiffness(ts.members[i].E, ts.members[i].A,
                                          ts.members[i].L,
                                          ts.members[i].T_vector)]]]

\* lines 31-34: m.A = areas[i] and the refreshed element stiffness
ApplyAreas(ts, areas) ==
    [ts EXCEPT !.members = [i \in 1..Len(ts.members) |->
        [ts.members[i] EXCEPT
            !.A = areas[i],
            !.k_global_matrix = Stiffness(ts.members[i].E, areas[i],
                                          ts.members[i].L,
                                          ts.members[i].T_vector)]]]

\* line 45: weight = sum(areas * lengths * density)
Weight(areas, lengths, density) ==
    SumSeq([i \in 1..Len(areas) |-> areas[i] * lengths[i] * density])

\* faulty variant: the absolute value is forgotten
MaxDispSigned(U) == MaxSeq(U)

\* line 52: max_disp = max(abs(U_global)), the largest entry of the vector
MaxDisp(U) == MaxSeq([i \in 1..Len(U) |-> Abs(U[i])])

\* lines 51-55
DeflectionPenalty(U, max_deflection) ==
    IF U # NoneU /\ MaxDisp(U) > max_deflection
    THEN (PenaltyUnit * MaxDisp(U)) \div max_deflection
    ELSE 0

\* line 59: stress = abs(internal_force) / areas[i]; x/0 is inf, 0/0 is nan
\* (which compares false with everything and so adds no penalty)
Stress(force, area) ==
    IF area = 0 THEN (IF force = 0 THEN 0 ELSE Infinity)
    ELSE Abs(force) \div area

\* lines 60-61, for one member
MemberPenalty(force, area, yield_stress) ==
    LET stress == Stress(force, area)
    IN  IF stress > yield_stress
        THEN (IF stress >= Infinity THEN Infinity
              ELSE (PenaltyUnit * stress) \div yield_stress)
        ELSE 0

RECURSIVE StressPenaltyFrom(_, _, _, _)
StressPenaltyFrom(members, areas, yield_stress, i) ==
    IF i > Len(members) THEN 0
    ELSE SatAdd(MemberPenalty(members[i].internal_force, areas[i], yield_stress),
                StressPenaltyFrom(members, areas, yield_stress, i + 1))

\* lines 58-61
StressPenalty(members, areas, yield_stress) ==
    StressPenaltyFrom(members, areas, yield_stress, 1)

\* faulty variant: the exception of solve() is not handled
ReraiseSolveError(ts) == [raised |-> TRUE, solve_failed |-> TRUE,
                          value |-> 0, ts |-> ts]

\* lines 39-41: the handler of an exception raised by solve()
OnSolveError(ts) == [raised |-> FALSE, solve_failed |-> TRUE,
                     value |-> SolveFailPenalty, ts |-> ts]

\* lines 22-64: objective_function(areas) on the optimizer o, whose truss
\* object currently holds ts.  The result carries the returned score and
\* the truss object as the call leaves it, and at_solve the truss object as
\* line 38 hands it to solve().
objective_function(o, ts, areas) ==
    LET applied == ApplyAreas(ts, areas)
        s == solve(applied)
        e == OnSolveError(s.ts)
    IN  IF s.raised
        THEN [raised |-> e.raised, solve_failed |-> e.solve_failed,
              value |-> e.value, ts |-> e.ts, at_solve |-> applied]
        ELSE [raised |-> FALSE, solve_failed |-> FALSE,
              value |-> SatAdd(Weight(areas, o.lengths, o.density),
                               SatAdd(DeflectionPenalty(s.ts.U_global, o.max_deflection),
                                      StressPenalty(s.ts.members, areas, o.yield_stress))),
              ts |-> s.ts, at_solve |-> applied]

(***************************************************************************)
(* app.py: the input tables.  A cell is << >> (pandas NaN) or <<v>>.       *)
(***************************************************************************)
NaN == << >>

isna(cell) == cell = NaN

\* float(row.get(col, d)) if not isna(row.get(col)) else d; int(...) likewise
CellOr(cell, d) == IF isna(cell) THEN d ELSE cell[1]

NodeRow(x, y, z, rx, ry, rz) ==
    [X |-> x, Y |-> y, Z |-> z,
     Restrain_X |-> rx, Restrain_Y |-> ry, Restrain_Z |-> rz]

MemberRow(ni, nj, a, e) == [Node_I |-> ni, Node_J |-> nj, Area |-> a, E |-> e]

LoadRow(id, fx, fy, fz) ==
    [Node_ID |-> id, Force_X |-> fx, Force_Y |-> fy, Force_Z |-> fz]

\* lines 103-113, one row (i is the 0-based row index): acc carries
\* ts.nodes, node_map (0 where a key is absent) and valid_node_count
ParseNodeRow(acc, row, i) ==
    IF isna(row.X) \/ isna(row.Y) \/ isna(row.Z)
    THEN [acc EXCEPT !.node_map = Append(@, 0)]
    ELSE LET count == acc.valid_node_count + 1
             n == [Node(count, row.X[1], row.Y[1], row.Z[1],
                        CellOr(row.Restrain_X, 0), CellOr(row.Restrain_Y, 0),
                        CellOr(row.Restrain_Z, 0))
                   EXCEPT !.user_id = i + 1]
         IN  [nodes |-> Append(acc.nodes, n),
              node_map |-> Append(acc.node_map, count),
              valid_node_count |-> count]

RECURSIVE ParseNodesFrom(_, _, _)
ParseNodesFrom(df, i, acc) ==
    IF i >= Len(df) THEN acc
    ELSE ParseNodesFrom(df, i + 1, ParseNodeRow(acc, df[i + 1], i))

ParseNodes(df) ==
    ParseNodesFrom(df, 0, [nodes |-> << >>, node_map |-> << >>,
                           valid_node_count |-> 0])

\* "key in node_map"
InNodeMap(node_map, key) ==
    key \in 1..Len(node_map) /\ node_map[key] # 0

\* lines 117-125, one row: acc carries ts.members and the error raised so
\* far ("" while none)
ParseMemberRow(acc, row, i, nodes, node_map) ==
    IF acc.error # "" \/ isna(row.Node_I) \/ isna(row.Node_J) THEN acc
    ELSE IF ~InNodeMap(node_map, row.Node_I[1]) \/ ~InNodeMap(node_map, row.Node_J[1])
    THEN [acc EXCEPT !.error = "invalid_member_node"]
    ELSE LET ni == nodes[node_map[row.Node_I[1]]]
             nj == nodes[node_map[row.Node_J[1]]]
         IN  IF MemberDegenerate(ni, nj)
             THEN [acc EXCEPT !.error = "degenerate_member"]
             ELSE [acc EXCEPT !.members =
                      Append(@, Member(i + 1, ni, nj,
                                       CellOr(row.E, DefaultE),
                                       CellOr(row.Area, DefaultArea)))]

RECURSIVE ParseMembersFrom(_, _, _, _, _)
ParseMembersFrom(df, i, acc, nodes, node_map) ==
    IF i >= Len(df) THEN acc
    ELSE ParseMembersFrom(df, i + 1,
                          ParseMemberRow(acc, df[i + 1], i, nodes, node_map),
                          nodes, node_map)

ParseMembers(df, nodes, node_map) ==
    ParseMembersFrom(df, 0, [members |-> << >>, error |-> ""], nodes, node_map)

\* faulty variant: a later row replaces the load of an earlier one
LoadOverwrite(loads, dof, f) == LoadPut(loads, dof, f)

\* lines 142-144: ts.loads[dof] = ts.loads.get(dof, 0.0) + f
LoadAdd(loads, dof, f) == LoadPut(loads, dof, LoadGet(loads, dof) + f)

\* lines 129-144, one row
ParseLoadRow(acc, row, i, nodes, node_map) ==
    IF acc.error # "" \/ isna(row.Node_ID) THEN acc
    ELSE IF ~InNodeMap(node_map, row.Node_ID[1])
    THEN [acc EXCEPT !.error = "invalid_load_node"]
    ELSE LET dofs == nodes[node_map[row.Node_ID[1]]].dofs
             fx == CellOr(row.Force_X, 0)
             fy == CellOr(row.Force_Y, 0)
             fz == CellOr(row.Force_Z, 0)
         IN  [acc EXCEPT !.loads =
                 LoadAdd(LoadAdd(LoadAdd(@, dofs[1], fx), dofs[2], fy), dofs[3], fz)]

RECURSIVE ParseLoadsFrom(_, _, _, _, _)
ParseLoadsFrom(df, i, acc, nodes, node_map) ==
    IF i >= Len(df) THEN acc
    ELSE ParseLoadsFrom(df, i + 1,
                        ParseLoadRow(acc, df[i + 1], i, nodes, node_map),
                        nodes, node_map)

ParseLoads(df, nodes, node_map) ==
    ParseLoadsFrom(df, 0, [loads |-> << >>, error |-> ""], nodes, node_map)

\* faulty variant: only the node list is checked
IncompleteNodesOnly(nodes, members) == nodes = << >>

\* line 146: if not ts.nodes or not ts.members
IncompleteModel(nodes, members) == nodes = << >> \/ members = << >>

\* TrussSystem.solve_nonlinear(load_steps): the load is applied in
\* load_steps increments with a Newton-Raphson correction in each.  Whether
\* an increment converges is decided by float arithmetic the model does
\* not follow, so it is an input of the call (diverges); a converged
\* analysis is represented by its linear limit.
solve_nonlinear(ts, steps, diverges) ==
    LET s == solve(ts)
    IN  IF s.raised \/ diverges THEN [raised |-> TRUE, ts |-> ts] ELSE s

\* lines 150-154: the solver chosen by the radio button
RunSolver(ts, analysis, steps, diverges) ==
    IF analysis = "linear" THEN solve(ts) ELSE solve_nonlinear(ts, steps, diverges)

\* faulty variant: the assignment of line 156 does not wait for the solver
PublishedBeforeSolve(error, solver_raised) == error = ""

\* line 156 is reached only when no statement of the try block raised
Published(error, solver_raised) == error = "" /\ ~solver_raised

\* lines 97-160: the "Calculate Results" handler on the three tables.
\* error names the exception caught at line 159 ("" if none), solver_called
\* whether line 151 or 154 was reached, published whether line 156 ran.
CalculateResults(ndf, mdf, ldf, analysis, steps, diverges) ==
    LET pn == ParseNodes(ndf)
        pm == ParseMembers(mdf, pn.nodes, pn.node_map)
        pl == IF pm.error # "" THEN [loads |-> << >>, error |-> pm.error]
              ELSE ParseLoads(ldf, pn.nodes, pn.node_map)
        parse_error ==
            IF pl.error # "" THEN pl.error
            ELSE IF IncompleteModel(pn.nodes, pm.members) THEN "incomplete_model"
            ELSE ""
        ts == [TrussSystem EXCEPT !.nodes = pn.nodes, !.members = pm.members,
                                  !.loads = pl.loads]
    IN  IF parse_error # ""
        THEN [error |-> parse_error, solver_called |-> FALSE,
              published |-> Published(parse_error, FALSE), ts |-> ts]
        ELSE LET s == RunSolver(ts, analysis, steps, diverges)
             IN  [error |-> IF s.raised THEN "solver_error" ELSE "",
                  solver_called |-> TRUE,
                  published |-> Published("", s.raised), ts |-> s.ts]

(***************************************************************************)
(* The session and the optimizer run as a state machine.                   *)
(***************************************************************************)
VARIABLES
    nodes_df,        \* the node table as the data editor returns it
    members_df,      \* the member table
    loads_df,        \* the nodal load table
    analysis_type,   \* "linear" or "nonlinear" (the radio button)
    load_steps,      \* the Newton-Raphson load step slider
    solved_truss,    \* session key 'solved_truss': << >> absent, <<ts>> present
    solved_from,     \* the inputs the truss in 'solved_truss' was solved from
    ui_message,      \* what the last handler reported
    calc,            \* what the last "Calculate Results" click did
    pc,              \* position of the optimization handler
    optimizer,       \* the TrussOptimizer object of the running handler
    clone,           \* the object copy.deepcopy created
    de,              \* the state of differential_evolution
    last_eval,       \* the last objective_function call
    base_snapshot,   \* the base truss as it was when the handler started
    opt_result       \* << >> or <<the tuple optimize() returned>>

vars == <<nodes_df, members_df, loads_df, analysis_type, load_steps,
          solved_truss, solved_from, ui_message, calc, pc, optimizer, clone, de,
          last_eval, base_snapshot, opt_result>>

tables == <<nodes_df, members_df, loads_df>>
optvars == <<pc, optimizer, clone, de, last_eval, base_snapshot, opt_result>>

NoCalc == [clicked |-> FALSE, error |-> "", solver_called |-> FALSE,
           published |-> FALSE, ts |-> TrussSystem]

NoOptimizer == [ts_ref |-> "none", density |-> 0, yield_stress |-> 0,
                max_deflection |-> 0, lengths |-> << >>]

NoDE == [lo |-> 0, hi |-> 0, population |-> << >>, energies |-> << >>,
         nit |-> 0, idx |-> 0, tol_met |-> FALSE, success |-> FALSE,
         x |-> << >>, fun |-> Infinity, npolish |-> 0, min_seen |-> Infinity]

\* the record of the objective_function calls made on the optimizer: the
\* last call (its candidate, its score, the truss as solve() received it),
\* the call before it (prev), every (candidate, score) pair so far
\* (history) and whether the last candidate had been evaluated before
NoEval == [called |-> FALSE, areas |-> << >>, value |-> 0,
           solve_failed |-> FALSE, raised |-> FALSE,
           at_solve |-> TrussSystem,
           prev |-> [areas |-> << >>, value |-> 0, solve_failed |-> FALSE],
           history |-> {}, repeat |-> FALSE]

\* ---------------------------------------------------------------- inputs
\* rows a user may type into the node table
NodeRowChoices ==
    { NodeRow(NaN, <<0>>, <<0>>, NaN, NaN, NaN),
      NodeRow(<<0>>, <<0>>, <<0>>, <<1>>, <<1>>, <<1>>),
      NodeRow(<<1>>, <<0>>, <<0>>, <<0>>, <<1>>, <<1>>),
      NodeRow(<<1>>, <<0>>, <<0>>, NaN, NaN, NaN) }

MemberRowChoices ==
    { MemberRow(NaN, <<2>>, NaN, NaN),
      MemberRow(<<1>>, <<2>>, NaN, NaN),
      MemberRow(<<1>>, <<1>>, <<1>>, <<1>>),
      MemberRow(<<1>>, <<MaxNodeRows + 1>>, NaN, NaN) }

LoadRowChoices ==
    { LoadRow(NaN, <<LoadUnit>>, NaN, NaN),
      LoadRow(<<2>>, <<LoadUnit>>, NaN, NaN),
      LoadRow(<<2>>, <<LoadUnit>>, <<-LoadUnit>>, NaN),
      LoadRow(<<1>>, NaN, <<LoadUnit>>, NaN),
      LoadRow(<<MaxNodeRows + 1>>, <<LoadUnit>>, NaN, NaN) }

SeqsUpTo(S, n) == UNION {[1..k -> S] : k \in 0..n}

NodeTables == SeqsUpTo(NodeRowChoices, MaxNodeRows)
MemberTables == SeqsUpTo(MemberRowChoices, MaxMemberRows)
LoadTables == SeqsUpTo(LoadRowChoices, MaxLoadRows)

LoadStepChoices == {5, DefaultLoadSteps}

\* an area so large that the weight of two members exceeds the penalty of
\* a candidate that misses a limit by a factor below 2
HeavyArea == PenaltyUnit

\* the four number inputs of the optimization panel, in the units of
\* their widgets (MPa, mm, cm^2); none of them carries a min_value
YieldChoicesMPa == {4, 5}
DeflectionChoicesMm == {2000, 4000, 5000, 120000000}
AreaBoundChoicesCm2 ==
    {<<20000, 30000>>, <<10000, 20000>>, <<0, 10000>>, <<-10000, -10000>>,
     <<40000, HeavyArea * 10000>>}

\* the model's stress unit is the MPa, so yield_stress_mpa * 1e6 Pa is
\* yield_stress_mpa units
PaScale == 1

\* areas the search may sample
AreaGrid == (-1..4) \cup {HeavyArea}

\* every vector of n areas within the bounds
Candidates(lo, hi, n) == [1..n -> {a \in AreaGrid : lo <= a /\ a <= hi}]

\* ------------------------------------------------------------- the session
\* what "Calculate Results" reads: the three tables, the radio button and
\* the load step count (line 87: 10 unless the slider is shown)
CurrentInputs ==
    [nodes |-> nodes_df, members |-> members_df, loads |-> loads_df,
     analysis |-> analysis_type, steps |-> load_steps]

Init ==
    /\ nodes_df = << >>
    /\ members_df = << >>
    /\ loads_df = << >>
    /\ analysis_type = "linear"
    /\ load_steps = DefaultLoadSteps
    /\ solved_truss = << >>
    /\ solved_from = << >>
    /\ ui_message = ""
    /\ calc = NoCalc
    /\ pc = "idle"
    /\ optimizer = NoOptimizer
    /\ clone = TrussSystem
    /\ de = NoDE
    /\ last_eval = NoEval
    /\ base_snapshot = TrussSystem
    /\ opt_result = << >>

\* lines 32-36 (the key 'report_data' is written nowhere in app.py)
clear_results(st) == << >>

\* what a rerun of the script wipes: the messages of the previous run
Rerun ==
    /\ calc' = NoCalc
    /\ opt_result' = << >>
    /\ last_eval' = NoEval
    /\ base_snapshot' = TrussSystem
    /\ UNCHANGED <<pc, optimizer, clone, de>>

\* line 69: the node editor, on_change=clear_results
EditNodes ==
    /\ pc = "idle"
    /\ \E t \in NodeTables \ {nodes_df} : nodes_df' = t
    /\ solved_truss' = clear_results(solved_truss)
    /\ solved_from' = << >>
    /\ ui_message' = ""
    /\ Rerun
    /\ UNCHANGED <<members_df, loads_df, analysis_type, load_steps>>

\* line 72
EditMembers ==
    /\ pc = "idle"
    /\ \E t \in MemberTables \ {members_df} : members_df' = t
    /\ solved_truss' = clear_results(solved_truss)
    /\ solved_from' = << >>
    /\ ui_message' = ""
    /\ Rerun
    /\ UNCHANGED <<nodes_df, loads_df, analysis_type, load_steps>>

\* line 75
EditLoads ==
    /\ pc = "idle"
    /\ \E t \in LoadTables \ {loads_df} : loads_df' = t
    /\ solved_truss' = clear_results(solved_truss)
    /\ solved_from' = << >>
    /\ ui_message' = ""
    /\ Rerun
    /\ UNCHANGED <<nodes_df, members_df, analysis_type, load_steps>>

\* lines 80-93: the analysis radio, on_change=clear_results.  The slider
\* exists only while the nonlinear method is selected: a slider that comes
\* back starts at its value=10, and without it load_steps is 10 (line 87)
SelectAnalysis ==
    /\ pc = "idle"
    /\ analysis_type' = IF analysis_type = "linear" THEN "nonlinear" ELSE "linear"
    /\ load_steps' = DefaultLoadSteps
    /\ solved_truss' = clear_results(solved_truss)
    /\ solved_from' = << >>
    /\ ui_message' = ""
    /\ Rerun
    /\ UNCHANGED tables

\* lines 88-93: the slider is shown in nonlinear mode and has no on_change
MoveLoadSteps ==
    /\ pc = "idle"
    /\ analysis_type = "nonlinear"
    /\ \E v \in LoadStepChoices \ {load_steps} : load_steps' = v
    /\ ui_message' = ""
    /\ Rerun
    /\ UNCHANGED <<tables, analysis_type, solved_truss, solved_from>>

\* lines 96-160: the "Calculate Results" button
ClickCalculate ==
    /\ pc = "idle"
    /\ \E diverges \in BOOLEAN :
       \E r \in {CalculateResults(nodes_df, members_df, loads_df, analysis_type,
                                   IF analysis_type = "linear" THEN DefaultLoadSteps
                                   ELSE load_steps,
                                   diverges)} :
             /\ (diverges => analysis_type = "nonlinear" /\ r.error = "solver_error")
             \* the analysis is a function of its inputs: what converged
             \* on these inputs converges on them again
             /\ (diverges => solved_from # <<CurrentInputs>>)
             /\ solved_truss' = IF r.published THEN <<r.ts>> ELSE solved_truss
             /\ solved_from' = IF r.published THEN <<CurrentInputs>> ELSE solved_from
             /\ ui_message' = IF r.error = "" THEN "analysis_complete" ELSE "error"
             /\ calc' = [clicked |-> TRUE, error |-> r.error,
                         solver_called |-> r.solver_called,
                         published |-> r.published, ts |-> r.ts]
    /\ opt_result' = << >>
    /\ last_eval' = NoEval
    /\ base_snapshot' = TrussSystem
    /\ UNCHANGED <<tables, analysis_type, load_steps, pc, optimizer, clone, de>>

\* lines 177-179: the optimization button without a solved truss
ClickOptimizeUnsolved ==
    /\ pc = "idle"
    /\ solved_truss = << >>
    /\ ui_message' = "run_calculate_first"
    /\ Rerun
    /\ UNCHANGED <<tables, analysis_type, load_steps, solved_truss, solved_from>>

\* ------------------------------------------------- the optimization run
\* faulty variant: no copy is made: the optimizer holds the caller's object
NoCopy(ref) == ref

\* copy.deepcopy(base_truss): a new object, named by the reference "clone"
deepcopy(ref) == "clone"

\* lines 6-20: TrussOptimizer.__init__
TrussOptimizerInit(base, yield_stress, max_deflection) ==
    [ts_ref |-> deepcopy("base"),
     density |-> Density,
     yield_stress |-> yield_stress,
     max_deflection |-> max_deflection,
     lengths |-> [i \in 1..Len(base.members) |-> base.members[i].L]]

\* the truss object self.ts refers to
OptTs == IF optimizer.ts_ref = "clone" THEN clone ELSE solved_truss[1]

\* lines 177-190: the button with a solved truss in the session; the four
\* inputs are read and converted to the solver's units
ClickOptimize ==
    /\ pc = "idle"
    /\ solved_truss # << >>
    /\ \E ys \in YieldChoicesMPa, md \in DeflectionChoicesMm, ab \in AreaBoundChoicesCm2 :
       \E o \in {TrussOptimizerInit(solved_truss[1], ys * PaScale, md \div 1000)} :
             /\ optimizer' = o
             /\ clone' = IF o.ts_ref = "clone" THEN solved_truss[1] ELSE clone
             /\ de' = [NoDE EXCEPT !.lo = ab[1] \div 10000, !.hi = ab[2] \div 10000]
    /\ base_snapshot' = solved_truss[1]
    /\ pc' = "constructed"
    /\ ui_message' = "optimizing"
    /\ calc' = NoCalc
    /\ opt_result' = << >>
    /\ last_eval' = NoEval
    /\ UNCHANGED <<tables, analysis_type, load_steps, solved_truss, solved_from>>

\* lines 71-74: optimize() builds one (min_area, max_area) pair per member
\* and hands the search to differential_evolution
OptimizeBegin ==
    /\ pc = "constructed"
    /\ pc' = "de_init"
    /\ de' = [de EXCEPT !.idx = 1]
    /\ UNCHANGED <<tables, analysis_type, load_steps, solved_truss, solved_from, ui_message,
                   calc, optimizer, clone, last_eval, base_snapshot, opt_result>>

\* one call self.objective_function(areas) made by the search: the truss
\* object of the optimizer is written, the call is recorded
Evaluated(areas, r) ==
    /\ last_eval' = [called |-> TRUE, areas |-> areas, value |-> r.value,
                     solve_failed |-> r.solve_failed, raised |-> r.raised,
                     at_solve |-> r.at_solve,
                     prev |-> [areas |-> last_eval.areas,
                               value |-> last_eval.value,
                               solve_failed |-> last_eval.solve_failed],
                     history |-> last_eval.history \cup {<<areas, r.value>>},
                     repeat |-> \E h \in last_eval.history : h[1] = areas]
    /\ IF optimizer.ts_ref = "clone"
       THEN clone' = r.ts /\ UNCHANGED solved_truss
       ELSE solved_truss' = <<r.ts>> /\ UNCHANGED clone

\* an exception leaving objective_function ends differential_evolution and
\* optimize(); line 231 catches it
Aborted ==
    /\ pc' = "idle"
    /\ ui_message' = "optimization_error"
    /\ de' = NoDE
    /\ optimizer' = NoOptimizer
    /\ UNCHANGED <<opt_result, base_snapshot>>

PopulationOf(d) == Candidates(d.lo, d.hi, Len(optimizer.lengths))

\* index of the first member of lowest energy
BestIndex(energies) ==
    CHOOSE i \in 1..Len(energies) :
        /\ \A j \in 1..Len(energies) : energies[i] <= energies[j]
        /\ \A j \in 1..(i - 1) : energies[j] > energies[i]

Min2(a, b) == IF a <= b THEN a ELSE b

\* the initial population: each member is drawn within the bounds and
\* evaluated; the lowest energy becomes the best solution
DEInitEval ==
    /\ pc = "de_init"
    /\ \E x \in PopulationOf(de) :
       \E r \in {objective_function(optimizer, OptTs, x)} :
       \E en \in {Append(de.energies, r.value)} :
         LET pop == Append(de.population, x)
         IN  /\ Evaluated(x, r)
             /\ IF r.raised THEN Aborted
                ELSE /\ de' = [de EXCEPT
                                 !.population = pop, !.energies = en,
                                 !.idx = IF de.idx = PopSize THEN 1 ELSE de.idx + 1,
                                 !.nit = IF de.idx = PopSize THEN 1 ELSE 0,
                                 !.x = pop[BestIndex(en)],
                                 !.fun = en[BestIndex(en)],
                                 !.min_seen = Min2(de.min_seen, r.value)]
                     /\ pc' = IF de.idx = PopSize THEN "de_evolve" ELSE "de_init"
                     /\ UNCHANGED <<ui_message, optimizer, opt_result, base_snapshot>>
    /\ UNCHANGED <<tables, analysis_type, load_steps, calc, solved_from>>

\* one trial of a generation: a vector within the bounds is evaluated and
\* replaces its target if it is no worse
DETrial ==
    /\ pc = "de_evolve"
    /\ \E x \in PopulationOf(de) :
       \E r \in {objective_function(optimizer, OptTs, x)} :
       \E accept \in {r.value <= de.energies[de.idx]} :
       \E en \in {IF accept THEN [de.energies EXCEPT ![de.idx] = r.value]
                  ELSE de.energies} :
         LET pop == IF accept THEN [de.population EXCEPT ![de.idx] = x]
                    ELSE de.population
         IN  /\ Evaluated(x, r)
             /\ IF r.raised THEN Aborted
                ELSE /\ de' = [de EXCEPT
                                 !.population = pop, !.energies = en,
                                 !.idx = IF de.idx = PopSize THEN 1 ELSE de.idx + 1,
                                 !.x = pop[BestIndex(en)],
                                 !.fun = en[BestIndex(en)],
                                 !.min_seen = Min2(de.min_seen, r.value)]
                     /\ pc' = IF de.idx = PopSize THEN "de_check" ELSE "de_evolve"
                     /\ UNCHANGED <<ui_message, optimizer, opt_result, base_snapshot>>
    /\ UNCHANGED <<tables, analysis_type, load_steps, calc, solved_from>>

\* the end of a generation: the spread test std(E) <= tol * |mean(E)| on
\* the population energies.  It holds when all energies are equal, fails
\* when one is infinite, and is otherwise decided on floats the model does
\* not follow: either outcome.  A generation cap reached without the test
\* holding ends the search unconverged.
DECheck ==
    /\ pc = "de_check"
    /\ \E met \in BOOLEAN :
         /\ (\A i, j \in 1..PopSize : de.energies[i] = de.energies[j])
               => (met <=> de.energies[1] < Infinity)
         /\ (\E i \in 1..PopSize : de.energies[i] >= Infinity) => ~met
         /\ IF met
            THEN pc' = "polish" /\ de' = [de EXCEPT !.tol_met = TRUE, !.success = TRUE]
            ELSE IF de.nit >= MaxGen
            THEN pc' = "polish" /\ de' = [de EXCEPT !.success = FALSE]
            ELSE pc' = "de_evolve" /\ de' = [de EXCEPT !.nit = de.nit + 1]
    /\ UNCHANGED <<tables, analysis_type, load_steps, solved_truss, solved_from, ui_message,
                   calc, optimizer, clone, last_eval, base_snapshot, opt_result>>

\* the polishing minimisation (L-BFGS-B within the same bounds): it first
\* evaluates the best member, then other vectors, and replaces the result
\* by a strictly better one
PolishEval ==
    /\ pc = "polish"
    /\ de.npolish < MaxPolish
    /\ \E x \in {y \in PopulationOf(de) : de.npolish = 0 => y = de.x} :
       \E r \in {objective_function(optimizer, OptTs, x)} :
             /\ Evaluated(x, r)
             /\ IF r.raised THEN Aborted
                ELSE /\ de' = [de EXCEPT
                                 !.npolish = de.npolish + 1,
                                 !.x = IF r.value < de.fun THEN x ELSE de.x,
                                 !.fun = IF r.value < de.fun THEN r.value ELSE de.fun,
                                 !.min_seen = Min2(de.min_seen, r.value)]
                     /\ UNCHANGED <<pc, ui_message, optimizer, opt_result, base_snapshot>>
    /\ UNCHANGED <<tables, analysis_type, load_steps, calc, solved_from>>

\* faulty variant: the penalised score of the search is returned as the weight
FinalWeightPenalised(result, lengths, density) == result.fun

\* line 90: final_weight = sum(optimized_areas * lengths * density)
FinalWeight(result, lengths, density) == Weight(result.x, lengths, density)

\* line 92: the tuple optimize() returns
OptimizeResult(result, lengths, density) ==
    [areas |-> result.x,
     final_weight |-> FinalWeight(result, lengths, density),
     success |-> result.success]

\* line 206: orig_weight, read from the base truss after the search
OrigWeight(base) ==
    SumSeq([i \in 1..Len(base.members) |->
               base.members[i].A * base.members[i].L * Density])

\* lines 199-230: what the handler reports for a returned tuple
ReportFor(ret) ==
    IF ret.final_weight < FeasibleThreshold
    THEN (IF ret.success THEN "converged" ELSE "generation_limit_valid_design")
    ELSE "no_feasible_design"

\* lines 89-92 and 198-230: optimize() returns, the handler reports.  The
\* record kept in opt_result adds to the returned tuple what the search
\* knew (fun, min_seen, tol_met, nit, the bounds) and orig_weight.
OptimizeReturn ==
    /\ pc = "polish"
    /\ de.npolish >= 1
    /\ LET ret == OptimizeResult(de, optimizer.lengths, optimizer.density)
       IN  /\ opt_result' = <<[areas |-> ret.areas,
                               final_weight |-> ret.final_weight,
                               success |-> ret.success,
                               fun |-> de.fun, min_seen |-> de.min_seen,
                               tol_met |-> de.tol_met, nit |-> de.nit,
                               lo |-> de.lo, hi |-> de.hi,
                               yield_stress |-> optimizer.yield_stress,
                               max_deflection |-> optimizer.max_deflection,
                               orig_weight |-> OrigWeight(solved_truss[1])]>>
           /\ ui_message' = ReportFor(ret)
    /\ pc' = "idle"
    /\ optimizer' = NoOptimizer
    /\ clone' = TrussSystem
    /\ de' = NoDE
    /\ last_eval' = NoEval
    /\ UNCHANGED <<tables, analysis_type, load_steps, solved_truss, solved_from, calc,
                   base_snapshot>>

\* ------------------------------------------------------- specifications
OptimizerNext ==
    \/ ClickOptimize
    \/ OptimizeBegin
    \/ DEInitEval
    \/ DETrial
    \/ DECheck
    \/ PolishEval
    \/ OptimizeReturn

Next ==
    \/ EditNodes
    \/ EditMembers
    \/ EditLoads
    \/ SelectAnalysis
    \/ MoveLoadSteps
    \/ ClickCalculate
    \/ ClickOptimizeUnsolved
    \/ OptimizerNext

Spec == Init /\ [][Next]_vars

\* a planar two-bar truss: two pinned supports, one loaded joint free in x
\* and y, one bar along each axis
BipodNodes ==
    << NodeRow(<<1>>, <<0>>, <<0>>, <<1>>, <<1>>, <<1>>),
       NodeRow(<<0>>, <<1>>, <<0>>, <<1>>, <<1>>, <<1>>),
       NodeRow(<<0>>, <<0>>, <<0>>, <<0>>, <<0>>, <<1>>) >>

BipodMembers ==
    << MemberRow(<<1>>, <<3>>, NaN, NaN), MemberRow(<<2>>, <<3>>, NaN, NaN) >>

BipodLoadChoices ==
    { << LoadRow(<<3>>, <<LoadUnit>>, <<LoadUnit>>, NaN) >>,
      << LoadRow(<<3>>, <<10001 * LoadUnit>>, NaN, NaN) >> }

\* the session after "Calculate Results" on a two-bar truss
InitOpt ==
    /\ nodes_df = BipodNodes
    /\ members_df = BipodMembers
    /\ loads_df \in BipodLoadChoices
    /\ analysis_type = "linear"
    /\ load_steps = DefaultLoadSteps
    /\ solved_truss = <<CalculateResults(nodes_df, members_df, loads_df, "linear",
                                         DefaultLoadSteps, FALSE).ts>>
    /\ solved_from = <<CurrentInputs>>
    /\ ui_message = "analysis_complete"
    /\ calc = NoCalc
    /\ pc = "idle"
    /\ optimizer = NoOptimizer
    /\ clone = TrussSystem
    /\ de = NoDE
    /\ last_eval = NoEval
    /\ base_snapshot = TrussSystem
    /\ opt_result = << >>

SpecOpt == InitOpt /\ [][OptimizerNext]_vars

(***************************************************************************)
(* Properties.                                                             *)
(***************************************************************************)
\* the candidate of the last objective_function call
EvalAreas == last_eval.areas

\* the call returned from a solve that succeeded
EvalSolved == last_eval.called /\ ~last_eval.solve_failed /\ ~last_eval.raised

\* sum(a_i * L_i * density), from the members of a truss
WeightOf(ts, areas) ==
    SumSeq([i \in 1..Len(areas) |-> areas[i] * ts.members[i].L * Density])

\* some entry of U exceeds the limit in absolute value
ComponentExceeds(U, limit) ==
    \E d \in 1..Len(U) : U[d] > limit \/ -U[d] > limit

\* |force| / area > yield_stress, as a comparison of rationals
StressExceeds(force, area, yield_stress) ==
    IF area > 0 THEN Abs(force) > yield_stress * area
    ELSE IF area = 0 THEN force # 0
    ELSE FALSE

SomeStressExceeds(ts, areas, yield_stress) ==
    \E i \in 1..Len(areas) :
        StressExceeds(ts.members[i].internal_force, areas[i], yield_stress)

\* C1: a TrussOptimizer built on the base truss, and every objective_function
\* and optimize() call on it, leave the base truss as it was: areas,
\* stiffness matrices, node coordinates, U_global and internal forces (and so
\* the orig_weight the handler reads from it afterwards).
C1_BaseTrussUnchanged ==
    /\ (pc # "idle" \/ opt_result # << >>) => solved_truss = <<base_snapshot>>
    /\ opt_result # << >> =>
          opt_result[1].orig_weight = OrigWeight(base_snapshot)

\* C1 witness: the search has evaluated a candidate whose areas differ from
\* the base truss's and the optimizer's object holds them.
C1_Witness ==
    /\ pc = "polish"
    /\ last_eval.called
    /\ clone.members[1].A # solved_truss[1].members[1].A
    /\ clone.U_global # solved_truss[1].U_global

\* C2: for every candidate on which solve() succeeds, the score is at least
\* the penalty floor when the deflection limit or a member's stress limit is
\* exceeded, and exactly the weight when none is.
C2_PenaltyFloor ==
    EvalSolved =>
        IF \/ ComponentExceeds(clone.U_global, optimizer.max_deflection)
           \/ SomeStressExceeds(clone, EvalAreas, optimizer.yield_stress)
        THEN last_eval.value >= PenaltyUnit
        ELSE last_eval.value = WeightOf(clone, EvalAreas)

\* C3: when solve() raises inside objective_function, the call returns the
\* fixed penalty, no exception leaves it, and the search goes on.
C3_SolveFailurePenalised ==
    /\ ui_message # "optimization_error"
    /\ ~last_eval.raised
    /\ (last_eval.called /\ solve(clone).raised) =>
          /\ last_eval.value = SolveFailPenalty
          /\ pc \in {"de_init", "de_evolve", "de_check", "polish"}

\* C3 witness: a candidate made the reduced stiffness matrix singular and
\* the search is in the middle of a generation.
C3_Witness ==
    /\ last_eval.called
    /\ solve(clone).raised
    /\ pc = "de_evolve"
    /\ de.idx > 1

\* a candidate is feasible on a base truss when solve() succeeds on it and
\* neither limit is exceeded
FeasibleOn(base, areas, yield_stress, max_deflection) ==
    \E s \in {solve(ApplyAreas(base, areas))} :
        /\ ~s.raised
        /\ ~ComponentExceeds(s.ts.U_global, max_deflection)
        /\ ~SomeStressExceeds(s.ts, areas, yield_stress)

ResultFeasible(r) ==
    FeasibleOn(base_snapshot, r.areas, r.yield_stress, r.max_deflection)

NoFeasibleCandidate(r) ==
    \A x \in Candidates(r.lo, r.hi, Len(r.areas)) :
        ~FeasibleOn(base_snapshot, x, r.yield_stress, r.max_deflection)

\* C4: when no candidate within the bounds satisfies both limits, optimize()
\* returns a final_weight at or above the penalty floor and the handler
\* reports that no feasible design exists; a final_weight below the floor
\* means the returned areas satisfy both limits.  (Stated for positive
\* bounds, where the areas themselves are not in question.)
C4_InfeasibleAtFloor ==
    (opt_result # << >> /\ opt_result[1].lo > 0) =>
        /\ NoFeasibleCandidate(opt_result[1]) =>
              /\ opt_result[1].final_weight >= PenaltyUnit
              /\ ui_message = "no_feasible_design"
        /\ opt_result[1].final_weight < PenaltyUnit => ResultFeasible(opt_result[1])

\* the deflection part of the last score: what is left of it after the
\* weight and the stress penalties
DeflectionPart ==
    last_eval.value - WeightOf(clone, EvalAreas)
        - StressPenalty(clone.members, EvalAreas, optimizer.yield_stress)

\* the three displacement components of node k
NodeDisp(U, k) == <<U[3 * k - 2], U[3 * k - 1], U[3 * k]>>

MaxAbs3(u) == Max2(Abs(u[1]), Max2(Abs(u[2]), Abs(u[3])))

SumSq3(u) == u[1] * u[1] + u[2] * u[2] + u[3] * u[3]

NonZero3(u) == Cardinality({i \in 1..3 : u[i] # 0})

\* the length of the vector u exceeds the limit (squares are formed only
\* where the largest component does not decide)
LengthExceeds(u, limit) ==
    IF NonZero3(u) <= 1 \/ MaxAbs3(u) > limit THEN MaxAbs3(u) > limit
    ELSE IF 2 * MaxAbs3(u) < limit THEN FALSE
    ELSE SumSq3(u) > limit * limit

\* the length of the vector u is m
LengthIs(u, m) ==
    IF NonZero3(u) <= 1 THEN MaxAbs3(u) = m
    ELSE m <= 2 * MaxAbs3(u) /\ m * m = SumSq3(u)

\* C5 as claimed: the deflection penalty is zero exactly when every node's
\* displacement vector has length <= max_deflection, and otherwise it is
\* the penalty unit times (largest such length / max_deflection).  (Stated
\* for positive bounds, where the areas themselves are not in question.)
C5_DeflectionByLength ==
    (EvalSolved /\ de.lo > 0) =>
        LET U == clone.U_global
            n == Len(U) \div 3
            md == optimizer.max_deflection
        IN  /\ DeflectionPart = 0
                  <=> \A k \in 1..n : ~LengthExceeds(NodeDisp(U, k), md)
            /\ DeflectionPart # 0 =>
                  /\ (DeflectionPart * md) % PenaltyUnit = 0
                  /\ \E k \in 1..n :
                        LengthIs(NodeDisp(U, k), (DeflectionPart * md) \div PenaltyUnit)

\* C5 as amended: the deflection penalty is zero exactly when every entry of
\* the displacement vector is <= max_deflection in absolute value, and
\* otherwise it is the penalty unit times (largest absolute entry /
\* max_deflection).
C5_DeflectionByComponent ==
    EvalSolved =>
        LET U == clone.U_global
            md == optimizer.max_deflection
        IN  /\ DeflectionPart = 0 <=> ~ComponentExceeds(U, md)
            /\ DeflectionPart # 0 =>
                  \E d \in 1..Len(U) :
                     /\ \A e \in 1..Len(U) : Abs(U[e]) <= Abs(U[d])
                     /\ DeflectionPart * md = PenaltyUnit * Abs(U[d])

\* C5 witness: a solved candidate whose loaded joint moved further than
\* max_deflection although no single component did, and one that is
\* penalised.
C5_Witness ==
    /\ EvalSolved
    /\ de.lo > 0
    /\ ~ComponentExceeds(clone.U_global, optimizer.max_deflection)
    /\ \E k \in 1..(Len(clone.U_global) \div 3) :
          LengthExceeds(NodeDisp(clone.U_global, k), optimizer.max_deflection)

\* C6: min_area > 0 holds for every optimize() call the application makes,
\* and every candidate handed to objective_function, and the returned
\* vector, lies within [min_area, max_area], so no area is zero or negative.
C6_AreasPositive ==
    /\ pc # "idle" => de.lo > 0
    /\ last_eval.called =>
          \A i \in 1..Len(EvalAreas) :
              de.lo <= EvalAreas[i] /\ EvalAreas[i] <= de.hi /\ EvalAreas[i] > 0
    /\ opt_result # << >> =>
          \A i \in 1..Len(opt_result[1].areas) :
              /\ opt_result[1].lo <= opt_result[1].areas[i]
              /\ opt_result[1].areas[i] <= opt_result[1].hi
              /\ opt_result[1].areas[i] > 0

Unsolved(ts) ==
    [ts EXCEPT !.free_dofs = << >>, !.U_global = NoneU,
               !.members = [i \in 1..Len(ts.members) |->
                   [ts.members[i] EXCEPT !.u_local = NoneU, !.internal_force = 0]]]

\* ts holds the complete results of a solve of its own nodes, members and
\* loads
HoldsSolveOfItself(ts) ==
    /\ ts.U_global # NoneU
    /\ \E s \in {solve(Unsolved(ts))} : ~s.raised /\ s.ts = ts

\* C8: 'solved_truss' only ever holds a TrussSystem whose solver call
\* returned: a failed "Calculate Results" attempt publishes nothing, a
\* successful one publishes its complete result.
C8_OnlySolvedPublished ==
    /\ solved_truss # << >> => HoldsSolveOfItself(solved_truss[1])
    /\ (calc.clicked /\ calc.error # "") =>
          ~calc.published /\ solved_truss # <<calc.ts>>
    /\ (calc.clicked /\ calc.error = "") =>
          calc.solver_called /\ calc.published /\ solved_truss = <<calc.ts>>

\* C8 witness: a solve attempt failed in the solver while an earlier result
\* was in the session.
C8_Witness ==
    /\ calc.clicked
    /\ calc.solver_called
    /\ calc.error = "solver_error"
    /\ solved_truss # << >>

\* the row numbers (1-based) of the node rows with all three coordinates
ValidNodeRows == {i \in 1..Len(nodes_df) :
    ~isna(nodes_df[i].X) /\ ~isna(nodes_df[i].Y) /\ ~isna(nodes_df[i].Z)}

\* the member rows that name two nodes
MemberRows == {i \in 1..Len(members_df) :
    ~isna(members_df[i].Node_I) /\ ~isna(members_df[i].Node_J)}

UndefinedMemberNode ==
    \E i \in MemberRows :
        \/ members_df[i].Node_I[1] \notin ValidNodeRows
        \/ members_df[i].Node_J[1] \notin ValidNodeRows

UndefinedLoadNode ==
    \E i \in 1..Len(loads_df) :
        ~isna(loads_df[i].Node_ID) /\ loads_df[i].Node_ID[1] \notin ValidNodeRows

InvalidTopology ==
    \/ UndefinedMemberNode
    \/ UndefinedLoadNode
    \/ Cardinality(ValidNodeRows) < 2
    \/ MemberRows = {}

\* C9: a model in which a member or a load row names an undefined node, or
\* with fewer than two valid nodes or no member, is rejected with an error
\* before solve() or solve_nonlinear() is called, and nothing is published.
C9_InvalidTopologyRejected ==
    (calc.clicked /\ InvalidTopology) =>
        /\ calc.error \notin {"", "solver_error"}
        /\ ~calc.solver_called
        /\ ~calc.published
        /\ solved_truss = << >>
        /\ ui_message = "error"

\* C9 witness: a clicked model with one valid node and a member row, and
\* one whose only fault is a load row naming an undefined node.
C9_Witness ==
    /\ calc.clicked
    /\ ~UndefinedMemberNode
    /\ MemberRows # {}
    /\ \/ Cardinality(ValidNodeRows) = 1
       \/ (Cardinality(ValidNodeRows) = 2 /\ UndefinedLoadNode)

\* component c (1, 2, 3) of load row r, a missing one counting as 0
RowForce(r, c) ==
    IF c = 1 THEN CellOr(r.Force_X, 0)
    ELSE IF c = 2 THEN CellOr(r.Force_Y, 0)
    ELSE CellOr(r.Force_Z, 0)

\* the sum of component c over the load rows naming the node of row number k
RECURSIVE RowForceSum(_, _, _, _)
RowForceSum(df, i, k, c) ==
    IF i > Len(df) THEN 0
    ELSE (IF ~isna(df[i].Node_ID) /\ df[i].Node_ID[1] = k
          THEN RowForce(df[i], c) ELSE 0) + RowForceSum(df, i + 1, k, c)

\* the load table with its rows in the order p
Reordered(df, p) == [i \in 1..Len(df) |-> df[p[i]]]

Orders(n) == {p \in [1..n -> 1..n] : \A i, j \in 1..n : i # j => p[i] # p[j]}

\* C10: after the load rows are parsed, the load of each DOF of a node is
\* the sum of that component over all rows naming the node (missing
\* components counting 0), a DOF named by no row has load 0, and the rows'
\* order does not matter.
C10_LoadsAdditive ==
    (calc.clicked /\ ~UndefinedMemberNode /\ ~UndefinedLoadNode
       /\ calc.error # "degenerate_member") =>
        /\ \A n \in 1..Len(calc.ts.nodes) : \A c \in 1..3 :
              LoadGet(calc.ts.loads, calc.ts.nodes[n].dofs[c])
                 = RowForceSum(loads_df, 1, calc.ts.nodes[n].user_id, c)
        /\ \A p \in Orders(Len(loads_df)) :
              \E q \in {ParseLoads(Reordered(loads_df, p), calc.ts.nodes,
                                   ParseNodes(nodes_df).node_map)} :
                 /\ q.error = ""
                 /\ \A d \in 0..(3 * Len(calc.ts.nodes) - 1) :
                       LoadGet(q.loads, d) = LoadGet(calc.ts.loads, d)

\* C10 witness: two load rows name the same node and both carry an x force.
C10_Witness ==
    /\ calc.clicked
    /\ calc.error = ""
    /\ \E i, j \in 1..Len(loads_df) :
          /\ i < j
          /\ ~isna(loads_df[i].Node_ID) /\ ~isna(loads_df[j].Node_ID)
          /\ loads_df[i].Node_ID = loads_df[j].Node_ID
          /\ ~isna(loads_df[i].Force_X) /\ ~isna(loads_df[j].Force_X)
          /\ ~isna(loads_df[j].Force_Y)

\* C11: at the moment objective_function invokes solve(), every member of
\* the optimizer's truss has A equal to the candidate's area for that member
\* and a stiffness matrix equal to (E*A/L) * outer(T, T) for that same A.
C11_StiffnessFreshAtSolve ==
    last_eval.called =>
        /\ Len(last_eval.at_solve.members) = Len(EvalAreas)
        /\ \A i \in 1..Len(EvalAreas) :
              LET m == last_eval.at_solve.members[i]
              IN  /\ m.A = EvalAreas[i]
                  /\ \A a, b \in 1..6 :
                        m.k_global_matrix[a][b]
                           = ((m.E * EvalAreas[i]) \div m.L)
                                * m.T_vector[a] * m.T_vector[b]

\* C11 witness: a candidate is evaluated right after one that gave some
\* member a different area, so a stiffness matrix left over would differ.
C11_Witness ==
    /\ last_eval.called
    /\ last_eval.prev.areas # << >>
    /\ \E i \in 1..Len(EvalAreas) :
          /\ last_eval.prev.areas[i] # EvalAreas[i]
          /\ EvalAreas[i] # 0
          /\ last_eval.at_solve.members[i].k_global_matrix[1][1] # 0

\* C12: for a given optimizer the score of an area vector depends on that
\* vector alone: whatever was evaluated before on the shared truss object
\* (failed solves and penalised candidates included), the same vector gets
\* the same score, which is the score it gets when evaluated first.
C12_ScoreOfVectorAlone ==
    last_eval.called =>
        /\ \A g, h \in last_eval.history : g[1] = h[1] => g[2] = h[2]
        /\ \E first \in {objective_function(optimizer, base_snapshot, EvalAreas)} :
              last_eval.value = first.value

\* C12 witness: a vector evaluated before is evaluated again right after a
\* different vector whose solve failed or which was penalised.
C12_Witness ==
    /\ EvalSolved
    /\ last_eval.repeat
    /\ last_eval.prev.areas # EvalAreas
    /\ \/ last_eval.prev.solve_failed
       \/ last_eval.prev.value >= PenaltyUnit
    /\ last_eval.value < PenaltyUnit

\* C13: whenever 'solved_truss' is present it is the result of a successful
\* solve of the current node, member and load tables under the currently
\* selected analysis method and load-step count: every change of one of
\* these inputs removes it, and a failed "Calculate Results" leaves none
\* that is stale.
C13_ResultIsCurrent ==
    solved_truss # << >> =>
        /\ solved_from = <<CurrentInputs>>
        /\ HoldsSolveOfItself(solved_truss[1])

\* the candidate satisfies both limits on the optimizer's truss
EvalFeasible(areas) ==
    FeasibleOn(base_snapshot, areas, optimizer.yield_stress, optimizer.max_deflection)

\* C14: of two candidates within the bounds, one satisfying both limits and
\* one violating a limit or making solve() fail, objective_function scores
\* the feasible one strictly lower; the unpenalised weight of every
\* candidate within the bounds is below the smallest penalty and below the
\* application's feasibility threshold.  (Stated for positive bounds, where
\* the areas themselves are not in question.)
C14_FeasibleScoresLower ==
    (last_eval.called /\ de.lo > 0) =>
        /\ \A g, h \in last_eval.history :
              (EvalFeasible(g[1]) /\ ~EvalFeasible(h[1])) => g[2] < h[2]
        /\ \A g \in last_eval.history :
              /\ WeightOf(base_snapshot, g[1]) < PenaltyUnit
              /\ WeightOf(base_snapshot, g[1]) < FeasibleThreshold

=============================================================================
